---------------------------- MODULE Spec2Model ----------------------------
(***************************************************************************)
(* Model of samples/download-lcc.py: a script that fetches a fixed list of *)
(* (url, filename) tasks into an output directory, trying alternate base   *)
(* URLs for the same filename and skipping files that are already there.   *)
(*                                                                         *)
(* The file system is the partial function fs from the filenames present   *)
(* in output_dir to their byte content.  The network is the environment:   *)
(* each GET is answered by a value of Envs (the request raises, or a       *)
(* response with a status and a chunked body arrives, and the I/O that     *)
(* follows may fault).                                                     *)
(***************************************************************************)
EXTENDS Integers, Sequences, FiniteSets, TLC

(***************************************************************************)
(* Bounds of the model.                                                    *)
(***************************************************************************)
MaxChunks == 2          \* chunks per response body, direct calls
MaxChunkLen == 1        \* bytes per chunk, direct calls
RunMaxChunks == 1       \* chunks per response body, whole runs

Bytes == {1, 2}         \* byte values the network sends, direct calls
RunChunks == {<<1>>}        \* the chunks the network sends, whole runs
OldContent == <<3, 3, 3>>   \* content of a file that predates the script

BSeq(S, n) == UNION {[1..k -> S] : k \in 0..n}

(***************************************************************************)
(* Module-level data, lines 11-38.  A URL is the sequence of its path      *)
(* segments after the host; a trailing "" segment is a trailing slash.     *)
(***************************************************************************)
lcc_meta_url == <<"lcc-model", "showroom+level+2", "showroom2.lcc">>

data_base_options ==
    << <<"lcc-model", "showroom+level+2", "">>,
       <<"lcc-model", "showroom+level+2", "showroom2", "">> >>

base_files == <<"meta.lcc", "index.bin", "data.bin", "environment.bin">>

\* urllib.parse.urljoin(base, rel) for a relative name without slashes:
\* the last path segment of base is replaced by rel.
urljoin(base, rel) == SubSeq(base, 1, Len(base) - 1) \o <<rel>>

\* Lines 31-38: the meta task, then for each other file one task per base.
files_to_download ==
    LET rest == Tail(base_files)
        nb   == Len(data_base_options)
    IN  <<[url |-> lcc_meta_url, filename |-> "meta.lcc"]>> \o
        [k \in 1..(Len(rest) * nb) |->
            LET filename == rest[((k - 1) \div nb) + 1]
                base_url == data_base_options[((k - 1) % nb) + 1]
            IN  [url |-> urljoin(base_url, filename), filename |-> filename]]

Filenames == {base_files[i] : i \in 1..Len(base_files)}

(***************************************************************************)
(* The environment of one download_file call.                              *)
(*   get    "raise": requests.get raises (timeout, connection error)       *)
(*          "ok":    a response arrives                                    *)
(*   status the response's status_code                                     *)
(*   chunks what iter_content yields, in order (chunks may be empty)       *)
(*   fault  "none"; "open": open(filepath,'wb') raises; "iter": the loop   *)
(*          raises after `at` chunks were written (read or write error);   *)
(*          "print": the print after the loop raises                       *)
(***************************************************************************)
Statuses == {200, 404, 500}

\* iter_content(chunk_size=8192), line 52: no chunk is longer than this
chunk_size == 8192

Envs(chunkValues, maxChunks) ==
    {[get |-> "raise", status |-> 0, chunks |-> <<>>, fault |-> "none", at |-> 0]}
    \cup {[get |-> "ok", status |-> s, chunks |-> <<>>, fault |-> "none", at |-> 0] :
            s \in Statuses \ {200}}
    \cup UNION {
          {[get |-> "ok", status |-> 200, chunks |-> c, fault |-> f, at |-> 0] :
              f \in {"none", "open", "print"}}
          \cup {[get |-> "ok", status |-> 200, chunks |-> c, fault |-> "iter", at |-> n] :
              n \in 0..Len(c)}
          : c \in {cs \in BSeq(chunkValues, maxChunks) :
                      \A k \in 1..Len(cs) : Len(cs[k]) <= chunk_size}}

RunEnvs == Envs(RunChunks, RunMaxChunks)
CallEnvs == Envs(BSeq(Bytes, MaxChunkLen), MaxChunks)

\* The response body: the concatenation of the chunks in order.
RECURSIVE Body(_)
Body(chunks) ==
    IF chunks = <<>> THEN <<>> ELSE Head(chunks) \o Body(Tail(chunks))

(***************************************************************************)
(* download_file, lines 40-61.                                             *)
(***************************************************************************)
\* mutant: the existence test always answers no
PathExists_never(files, filename) == FALSE

\* os.path.exists(filepath), line 44
PathExists(files, filename) == filename \in DOMAIN files

\* mutant: the existence test of the guard is negated
ShouldSkip_negatedExists(skip_if_exists, files, filename) ==
    skip_if_exists /\ ~(filename \in DOMAIN files)

\* line 44: the guard of the early return
ShouldSkip(skip_if_exists, files, filename) ==
    skip_if_exists /\ PathExists(files, filename)

\* mutant: the file is opened for appending ('ab')
OpenWB_append(files, filename) ==
    IF filename \in DOMAIN files THEN files[filename] ELSE <<>>

\* open(filepath, 'wb'), line 51: the file is created or truncated
OpenWB(files, filename) == <<>>

\* lines 52-54: each non-empty chunk is appended to the open file
RECURSIVE WriteChunks(_, _)
WriteChunks(content, chunks) ==
    IF chunks = <<>> THEN content
    ELSE IF Head(chunks) # <<>>
         THEN WriteChunks(content \o Head(chunks), Tail(chunks))
         ELSE WriteChunks(content, Tail(chunks))

WithFile(files, filename, content) ==
    [g \in DOMAIN files \cup {filename} |->
        IF g = filename THEN content ELSE files[g]]

\* lines 48-58: the body of the try.  exc is TRUE when it raised.
TryBody(url, filename, env, files, reqs) ==
    LET reqs1 == Append(reqs, url)
    IN  IF env.get = "raise"
        THEN [exc |-> TRUE, ret |-> "None", fs |-> files, requests |-> reqs1]
        ELSE IF env.status = 200
        THEN IF env.fault = "open"
             THEN [exc |-> TRUE, ret |-> "None", fs |-> files, requests |-> reqs1]
             ELSE LET n == IF env.fault = "iter" THEN env.at ELSE Len(env.chunks)
                      written == WriteChunks(OpenWB(files, filename),
                                             SubSeq(env.chunks, 1, n))
                      files1 == WithFile(files, filename, written)
                  IN  IF env.fault \in {"iter", "print"}
                      THEN [exc |-> TRUE, ret |-> "None", fs |-> files1,
                            requests |-> reqs1]
                      ELSE [exc |-> FALSE, ret |-> "True", fs |-> files1,
                            requests |-> reqs1]
        ELSE [exc |-> FALSE, ret |-> "False", fs |-> files, requests |-> reqs1]

\* mutant: the exception is not caught
ExceptHandler_reraise(b) == b

\* lines 60-61: except Exception: return False
ExceptHandler(b) == [b EXCEPT !.exc = FALSE, !.ret = "False"]

download_file(url, filename, skip_if_exists, env, files, reqs) ==
    IF ShouldSkip(skip_if_exists, files, filename)
    THEN [exc |-> FALSE, ret |-> "exists", fs |-> files, requests |-> reqs]
    ELSE LET b == TryBody(url, filename, env, files, reqs)
         IN  IF b.exc THEN ExceptHandler(b) ELSE b

(***************************************************************************)
(* The main loop and the summary, lines 66-82.                             *)
(***************************************************************************)
\* mutant: the membership test is missing
AlreadyDownloaded_never(filename, downloaded) == FALSE

\* line 69
AlreadyDownloaded(filename, downloaded) == filename \in downloaded

\* mutant: 'exists' is not counted as obtained
IsSuccess_onlyTrue(result) == result = "True"

\* mutant: every result is counted as obtained
IsSuccess_always(result) == TRUE

\* line 73: result == 'exists' or result
IsSuccess(result) == result = "exists" \/ result = "True"

\* mutant: the loop skips every other task
NextTask_skipsOne(i) == i + 2

\* the for loop's advance, line 68
NextTask(i) == i + 1

\* line 77
expected_files ==
    {files_to_download[i].filename : i \in 1..Len(files_to_download)}

\* mutant: the sizes compared are those of the set and of the task list
Summary_countsTasks(downloaded) ==
    IF Cardinality(downloaded) = Len(files_to_download)
    THEN [kind |-> "complete", count |-> Cardinality(downloaded), missing |-> {}]
    ELSE [kind |-> "missing", count |-> 0,
          missing |-> {files_to_download[i].filename :
                          i \in 1..Len(files_to_download)} \ downloaded]

\* lines 78-82
Summary(downloaded) ==
    IF Cardinality(downloaded) = Cardinality(expected_files)
    THEN [kind |-> "complete", count |-> Cardinality(downloaded), missing |-> {}]
    ELSE [kind |-> "missing", count |-> 0,
          missing |-> expected_files \ downloaded]

NoSummary == [kind |-> "none", count |-> 0, missing |-> {}]
\* last.env is the environment the call consumed, NoEnv when it made no request
NoEnv == [get |-> "none", status |-> 0, chunks |-> <<>>, fault |-> "none", at |-> 0]
Consumed(env, r, reqs) == IF r.requests = reqs THEN NoEnv ELSE env
NoCall == [task |-> 0, skip |-> FALSE, ret |-> "None", env |-> NoEnv]

VARIABLES
    pc,                 \* "loop", "done", "crashed"; "direct" for direct calls
    run,                \* 1 for the first run of the script, 2 for the second
    idx,                \* position of the for loop in files_to_download
    fs,                 \* the output directory
    fs0,                \* the output directory when the run started
    downloaded_files,   \* line 66
    prev_downloaded,    \* downloaded_files at the end of the previous run
    requests,           \* URLs of the GETs issued in this run, in order
    calls,              \* download_file calls of this run: task index, result
    last,               \* the latest download_file call with its environment
    summary             \* what the summary printed

vars == <<pc, run, idx, fs, fs0, downloaded_files, prev_downloaded, requests,
          calls, last, summary>>

InitialDirs == UNION {[S -> {OldContent}] : S \in SUBSET Filenames}

Init ==
    /\ pc = "loop"
    /\ run = 1
    /\ idx = 1
    /\ fs \in InitialDirs
    /\ fs0 = fs
    /\ downloaded_files = {}
    /\ prev_downloaded = {}
    /\ requests = <<>>
    /\ calls = <<>>
    /\ last = NoCall
    /\ summary = NoSummary

\* lines 69-70: the task's filename was already obtained
Continue ==
    /\ pc = "loop"
    /\ idx <= Len(files_to_download)
    /\ AlreadyDownloaded(files_to_download[idx].filename, downloaded_files)
    /\ idx' = NextTask(idx)
    /\ UNCHANGED <<pc, run, fs, fs0, downloaded_files, prev_downloaded,
                   requests, calls, last, summary>>

\* lines 72-74: one call of download_file and the use of its result
Attempt ==
    /\ pc = "loop"
    /\ idx <= Len(files_to_download)
    /\ ~AlreadyDownloaded(files_to_download[idx].filename, downloaded_files)
    /\ \E env \in RunEnvs :
        LET t == files_to_download[idx]
            r == download_file(t.url, t.filename, TRUE, env, fs, requests)
        IN  /\ fs' = r.fs
            /\ requests' = r.requests
            /\ last' = [task |-> idx, skip |-> TRUE, ret |-> r.ret,
                        env |-> Consumed(env, r, requests)]
            /\ calls' = Append(calls, [task |-> idx, ret |-> r.ret])
            /\ IF r.exc
               THEN /\ pc' = "crashed"
                    /\ UNCHANGED <<idx, downloaded_files>>
               ELSE /\ pc' = pc
                    /\ idx' = NextTask(idx)
                    /\ downloaded_files' =
                         IF IsSuccess(r.ret)
                         THEN downloaded_files \cup {t.filename}
                         ELSE downloaded_files
    /\ UNCHANGED <<run, fs0, prev_downloaded, summary>>

\* lines 76-82
Summarize ==
    /\ pc = "loop"
    /\ idx > Len(files_to_download)
    /\ summary' = Summary(downloaded_files)
    /\ pc' = "done"
    /\ UNCHANGED <<run, idx, fs, fs0, downloaded_files, prev_downloaded,
                   requests, calls, last>>

\* The script is run again on the directory the first run left.
Rerun ==
    /\ pc = "done"
    /\ run = 1
    /\ run' = 2
    /\ pc' = "loop"
    /\ idx' = 1
    /\ fs0' = fs
    /\ prev_downloaded' = downloaded_files
    /\ downloaded_files' = {}
    /\ requests' = <<>>
    /\ calls' = <<>>
    /\ last' = NoCall
    /\ summary' = NoSummary
    /\ UNCHANGED fs

\* One run of the script.
Next == Continue \/ Attempt \/ Summarize

Spec == Init /\ [][Next]_vars

\* The interpreter runs the script's statements one after the other.
FairSpec == Spec /\ WF_vars(Next)

\* Two runs of the script, one after the other, on the same directory.
NextTwice == Continue \/ Attempt \/ Summarize \/ Rerun

TwiceSpec == Init /\ [][NextTwice]_vars

(***************************************************************************)
(* download_file called directly, once, with any task, any skip_if_exists  *)
(* and any environment, on any initial directory.                          *)
(***************************************************************************)
InitCall ==
    /\ pc = "direct"
    /\ run = 1
    /\ idx = 1
    /\ fs \in InitialDirs
    /\ fs0 = fs
    /\ downloaded_files = {}
    /\ prev_downloaded = {}
    /\ requests = <<>>
    /\ calls = <<>>
    /\ last = NoCall
    /\ summary = NoSummary

DirectCall ==
    /\ pc = "direct"
    /\ last = NoCall
    /\ \E i \in 1..Len(files_to_download), skip \in BOOLEAN, env \in CallEnvs :
        LET t == files_to_download[i]
            r == download_file(t.url, t.filename, skip, env, fs, requests)
        IN  /\ fs' = r.fs
            /\ requests' = r.requests
            /\ last' = [task |-> i, skip |-> skip, ret |-> r.ret,
                        env |-> Consumed(env, r, requests)]
            /\ calls' = Append(calls, [task |-> i, ret |-> r.ret])
            /\ pc' = IF r.exc THEN "crashed" ELSE pc
    /\ UNCHANGED <<run, idx, fs0, downloaded_files, prev_downloaded, summary>>

NextCall == DirectCall

CallSpec == InitCall /\ [][NextCall]_vars

TypeOK ==
    /\ pc \in {"loop", "done", "crashed", "direct"}
    /\ run \in {1, 2}
    /\ idx \in 1..(Len(files_to_download) + 1)
    /\ DOMAIN fs \subseteq Filenames
    /\ downloaded_files \subseteq Filenames

(***************************************************************************)
(* Vocabulary of the properties.                                           *)
(***************************************************************************)
Tasks == 1..Len(files_to_download)
FilenameOf(i) == files_to_download[i].filename
UrlOf(i) == files_to_download[i].url
Candidates(f) == {i \in Tasks : FilenameOf(i) = f}
ExpectedSet == {FilenameOf(i) : i \in Tasks}
Obtained(ret) == ret \in {"exists", "True"}
CallsOf(i) == {k \in 1..Len(calls) : calls[k].task = i}
\* the filenames the GETs of this run were for
RequestedFilenames ==
    {FilenameOf(i) : i \in {j \in Tasks :
        \E k \in 1..Len(requests) : requests[k] = UrlOf(j)}}
Called == last.task # 0
LastFile == FilenameOf(last.task)
\* the environment of the latest call was anything but a clean 200 response
Faulted(env) ==
    \/ env.get = "raise"
    \/ env.get = "ok" /\ env.status # 200
    \/ env.get = "ok" /\ env.status = 200 /\ env.fault # "none"
SameFiles(a, b) == DOMAIN a = DOMAIN b /\ \A f \in DOMAIN a : a[f] = b[f]

(***************************************************************************)
(* C1.  download_file called with skip_if_exists true on a destination     *)
(* that exists before the call issues no network request, leaves the file  *)
(* system unchanged and returns 'exists'.                                  *)
(***************************************************************************)
C1_SkipExisting ==
    (Called /\ last.skip /\ LastFile \in DOMAIN fs0)
        => /\ requests = <<>>
           /\ SameFiles(fs, fs0)
           /\ last.ret = "exists"

C1_Witness ==
    /\ Called /\ last.skip /\ LastFile \in DOMAIN fs0
    /\ last.ret = "exists"
    /\ last.task = 3

(***************************************************************************)
(* C2.  Once a task for a filename has returned 'exists' or a successful   *)
(* download, no later task with that filename is passed to download_file:  *)
(* of two calls for one filename the earlier one failed, and from then on  *)
(* the file is not written and no request is issued for that filename.     *)
(***************************************************************************)
SucceededFor(f) ==
    \E k \in 1..Len(calls) : FilenameOf(calls[k].task) = f /\ Obtained(calls[k].ret)

C2_NoCallAfterSuccess_Inv ==
    \A i, j \in 1..Len(calls) :
        (i < j /\ FilenameOf(calls[i].task) = FilenameOf(calls[j].task))
            => ~Obtained(calls[i].ret)

C2_NoCallAfterSuccess_Step ==
    \A f \in ExpectedSet :
        SucceededFor(f) =>
            /\ f \in DOMAIN fs /\ f \in DOMAIN fs' /\ fs'[f] = fs[f]
            /\ \A k \in 1..Len(calls') :
                   FilenameOf(calls'[k].task) = f => k <= Len(calls)
            /\ \A k \in 1..Len(requests') :
                   (\E i \in Candidates(f) : requests'[k] = UrlOf(i))
                       => k <= Len(requests)

C2_NoCallAfterSuccess ==
    [](C2_NoCallAfterSuccess_Inv) /\ [][C2_NoCallAfterSuccess_Step]_vars

C2_Witness ==
    /\ pc = "done"
    /\ \E k \in 1..Len(calls) : calls[k].task = 2 /\ calls[k].ret = "True"
    /\ CallsOf(3) = {}
    /\ \E k \in 1..Len(calls) : calls[k].task = 4 /\ calls[k].ret = "False"
    /\ CallsOf(5) # {}

(***************************************************************************)
(* C3.  As claimed: a second run on the directory the first run left ends  *)
(* with the same DownloadedSet as the first and issues no request for a    *)
(* filename of the first run's DownloadedSet.                              *)
(***************************************************************************)
C3_SameDownloadedSet ==
    (run = 2 /\ pc = "done")
        => /\ downloaded_files = prev_downloaded
           /\ RequestedFilenames \cap prev_downloaded = {}

(***************************************************************************)
(* C3 as amended.  A second run ends with a DownloadedSet that contains    *)
(* the first run's, and at no point of the second run has a request been   *)
(* issued for a filename of the first run's DownloadedSet.                 *)
(***************************************************************************)
C3_SecondRunKeeps ==
    run = 2 =>
        /\ RequestedFilenames \cap prev_downloaded = {}
        /\ pc = "done" => prev_downloaded \subseteq downloaded_files

C3_Witness ==
    /\ run = 2 /\ pc = "done"
    /\ prev_downloaded = {"meta.lcc", "index.bin"}
    /\ downloaded_files = {"meta.lcc", "index.bin", "data.bin"}
    /\ requests # <<>>

(***************************************************************************)
(* C4.  As claimed: a successful download_file creates or overwrites       *)
(* exactly the one file output_dir/filename; a call that returns False or  *)
(* that skips leaves the set of files of the directory as it was.          *)
(***************************************************************************)
C4_NoFileOnFailure ==
    Called =>
        /\ last.ret = "True" =>
              /\ DOMAIN fs = DOMAIN fs0 \cup {LastFile}
              /\ \A f \in DOMAIN fs0 \ {LastFile} : fs[f] = fs0[f]
        /\ last.ret \in {"False", "exists"} => DOMAIN fs = DOMAIN fs0

(***************************************************************************)
(* C5.  Every fault in download_file (the request raises, the status is    *)
(* not 200, opening, reading or writing raises) gives the result False and *)
(* no exception leaves the call; after a False result the main loop leaves *)
(* downloaded_files unchanged and moves on to the next task.               *)
(***************************************************************************)
C5_FaultsAbsorbed_Inv ==
    /\ pc # "crashed"
    /\ (Called /\ Faulted(last.env)) => last.ret = "False"

C5_FaultsAbsorbed_Step ==
    (Len(calls') = Len(calls) + 1 /\ calls'[Len(calls')].ret = "False")
        => /\ downloaded_files' = downloaded_files
           /\ idx' = idx + 1
           /\ pc' = "loop"
           /\ calls'[Len(calls')].task = idx

C5_FaultsAbsorbed ==
    [](C5_FaultsAbsorbed_Inv) /\ [][C5_FaultsAbsorbed_Step]_vars

C5_Witness ==
    /\ pc = "done"
    /\ \E k \in 1..Len(calls) : calls[k].task = 2 /\ calls[k].ret = "False"
    /\ \E k \in 1..Len(calls) : calls[k].task = 3 /\ calls[k].ret = "True"
    /\ last.task = 7 /\ last.env.fault = "iter" /\ last.ret = "False"

(***************************************************************************)
(* C6.  When the run is over the summary reports full success, with the    *)
(* number of files obtained, exactly when DownloadedSet = ExpectedSet, and *)
(* otherwise reports ExpectedSet \ DownloadedSet, which is then not empty; *)
(* a filename all of whose candidates failed is reported missing.  In      *)
(* every state equal sizes of the two sets imply that they are equal.      *)
(***************************************************************************)
AllCandidatesFailed(f) ==
    \A i \in Candidates(f) :
        \E k \in 1..Len(calls) : calls[k].task = i /\ calls[k].ret = "False"

C6_SummaryExact ==
    /\ Cardinality(downloaded_files) = Cardinality(ExpectedSet)
          => downloaded_files = ExpectedSet
    /\ pc = "done" =>
          /\ summary.kind \in {"complete", "missing"}
          /\ summary.kind = "complete" <=> downloaded_files = ExpectedSet
          /\ summary.kind = "complete"
                => summary.count = Cardinality(ExpectedSet)
          /\ summary.kind = "missing"
                => /\ summary.missing = ExpectedSet \ downloaded_files
                   /\ summary.missing # {}
          /\ \A f \in ExpectedSet :
                AllCandidatesFailed(f) => f \in summary.missing

C6_Witness ==
    /\ pc = "done"
    /\ DOMAIN fs0 = {"index.bin"}
    /\ summary.kind = "missing"
    /\ summary.missing = {"environment.bin"}
    /\ AllCandidatesFailed("environment.bin")

(***************************************************************************)
(* C7.  After a download that returns success the content of the local     *)
(* file is the response body: the chunks the response yielded, in order,   *)
(* with nothing left of a previous file of that name.                      *)
(***************************************************************************)
C7_ContentIsBody ==
    (Called /\ last.ret = "True")
        => /\ LastFile \in DOMAIN fs
           /\ fs[LastFile] = Body(last.env.chunks)

C7_Witness ==
    /\ Called /\ last.ret = "True" /\ ~last.skip
    /\ LastFile \in DOMAIN fs0
    /\ last.env.chunks = << <<2>>, <<1>> >>
    /\ fs[LastFile] = <<2, 1>>

(***************************************************************************)
(* C8.  Over a whole run, which always calls download_file with            *)
(* skip_if_exists true, every file that was in the output directory before *)
(* the run is still there with the same content, whatever the network      *)
(* returns.                                                                *)
(***************************************************************************)
C8_ExistingFilesKept ==
    \A f \in DOMAIN fs0 : f \in DOMAIN fs /\ fs[f] = fs0[f]

C8_Witness ==
    /\ pc = "done"
    /\ DOMAIN fs0 = {"meta.lcc", "data.bin"}
    /\ DOMAIN fs = Filenames
    /\ Len(requests) = 3

(***************************************************************************)
(* C9.  The run terminates.  Tasks are passed to download_file in list     *)
(* order and none more than once, with at most one request per task; when  *)
(* the run is over every expected filename is in DownloadedSet or every    *)
(* candidate task for it was attempted and failed.                         *)
(***************************************************************************)
C9_Sweep_Inv ==
    /\ \A i, j \in 1..Len(calls) : i < j => calls[i].task < calls[j].task
    /\ \A k \in 1..Len(calls) : calls[k].task < idx
    /\ \A i, j \in 1..Len(requests) : i < j => requests[i] # requests[j]
    /\ \A k \in 1..Len(requests) :
           \E c \in 1..Len(calls) :
               requests[k] = UrlOf(calls[c].task) /\ calls[c].ret # "exists"
    /\ pc = "done" =>
           \A f \in ExpectedSet :
               f \in downloaded_files \/ AllCandidatesFailed(f)

C9_Sweep == <>(pc = "done") /\ [](C9_Sweep_Inv)

C9_Witness ==
    /\ pc = "done"
    /\ fs0 = <<>>
    /\ "data.bin" \notin downloaded_files
    /\ AllCandidatesFailed("data.bin")
    /\ downloaded_files = {"meta.lcc", "index.bin", "environment.bin"}
    /\ Len(calls) = 6

(***************************************************************************)
(* C10.  In every state of a run DownloadedSet is a subset of ExpectedSet  *)
(* and each of its filenames has a file in the output directory; it only   *)
(* grows, and a filename enters it only at the step where download_file    *)
(* returned 'exists' or True for a task with that filename.                *)
(***************************************************************************)
C10_Downloaded_Inv ==
    /\ downloaded_files \subseteq ExpectedSet
    /\ \A f \in downloaded_files : f \in DOMAIN fs

C10_Downloaded_Step ==
    /\ downloaded_files \subseteq downloaded_files'
    /\ \A f \in downloaded_files' \ downloaded_files :
          /\ Len(calls') = Len(calls) + 1
          /\ calls'[Len(calls')].task = idx
          /\ FilenameOf(idx) = f
          /\ Obtained(calls'[Len(calls')].ret)

C10_Downloaded ==
    [](C10_Downloaded_Inv) /\ [][C10_Downloaded_Step]_vars

C10_Witness ==
    /\ pc = "done"
    /\ downloaded_files = ExpectedSet
    /\ \E k \in 1..Len(calls) : calls[k].ret = "exists"
    /\ \E k \in 1..Len(calls) : calls[k].ret = "True"
    /\ \E k \in 1..Len(calls) : calls[k].ret = "False"
=============================================================================
